---------------------------- MODULE Spec2Model ----------------------------
(***************************************************************************)
(* N26-to-YNAB bridge: main.py, src/api.py, src/config.py, src/paths.py.   *)
(*                                                                         *)
(* One run of the program is modelled as a sequential state machine.  pc   *)
(* is the position in update_ynab; err is the exception that ended the run *)
(* ("None" while none was raised; pc then stays at the step that raised).  *)
(* calls is the history of every external interaction of the run (file     *)
(* reads, N26 and YNAB API calls, sleeps), in program order.  The outcomes *)
(* of the external calls are chosen when the call is made.                 *)
(***************************************************************************)
EXTENDS Integers, Sequences, FiniteSets

VARIABLES
    entry,              \* "cli": python main.py ...; "api": update_ynab called directly
    argv,               \* the command line flags -a, -r, -d
    files,              \* the files present under config/
    pc,                 \* position in the program
    err,                \* exception that ended the run, "None" if none
    errmsg,             \* what the exception's message is built from
    account_name,       \* update_ynab parameter
    retries,            \* update_ynab / download_n26_transactions parameter
    delay,              \* update_ynab / download_n26_transactions parameter
    ynab_account_name,  \* update_ynab local
    budget_name,        \* update_ynab local
    watchdog,           \* download_n26_transactions local
    transactions,       \* update_ynab local
    budget_id,          \* upload_n26_transactions_to_ynab local
    account_id,         \* upload_n26_transactions_to_ynab local
    logs_dir,           \* the CSV trace files written under logs/
    calls               \* history of external interactions

vars == <<entry, argv, files, pc, err, errmsg, account_name, retries, delay,
          ynab_account_name, budget_name, watchdog, transactions, budget_id,
          account_id, logs_dir, calls>>

-----------------------------------------------------------------------------
(* Bounds of the model *)

MaxRetries == 2
MaxTx == 2

-----------------------------------------------------------------------------
(* Sequence helpers *)

Range(s) == {s[i] : i \in 1..Len(s)}

Front(s) == SubSeq(s, 1, Len(s) - 1)

Last(s) == s[Len(s)]

SeqsUpTo(S, n) == UNION {[1..k -> S] : k \in 0..n}

-----------------------------------------------------------------------------
(* main.py: the command line *)

None == "None"

Digits == <<"0", "1", "2", "3", "4", "5", "6", "7", "8", "9">>

DigitVal(c) == (CHOOSE i \in 1..10 : Digits[i] = c) - 1

\* the decimal text a user types for the integer n
RECURSIVE DecStr(_)
DecStr(n) ==
    IF n < 0 THEN <<"-">> \o DecStr(-n)
    ELSE IF n < 10 THEN <<Digits[n + 1]>>
    ELSE DecStr(n \div 10) \o <<Digits[(n % 10) + 1]>>

RECURSIVE IntOfDigits(_)
IntOfDigits(s) ==
    IF s = <<>> THEN 0
    ELSE IntOfDigits(Front(s)) * 10 + DigitVal(Last(s))

\* Python's int() on a flag value: a decimal string, or the int default
int(v) ==
    IF ~v.given THEN v.default
    ELSE IF v.text[1] = "-" THEN -IntOfDigits(Tail(v.text))
    ELSE IntOfDigits(v.text)

DefaultRetries == 0

DefaultDelay == 30 * 60

Flag(text, default) == [given |-> TRUE, text |-> text, default |-> default]

Omitted(default) == [given |-> FALSE, text |-> <<>>, default |-> default]

RetryFlags ==
    {Omitted(DefaultRetries)} \cup
    {Flag(DecStr(n), DefaultRetries) : n \in (-1)..MaxRetries}

DelayFlags == {Omitted(DefaultDelay), Flag(DecStr(5), DefaultDelay)}

\* delays update_ynab is called with when it is called directly
ApiDelays == {1, 60}

NoArgv == [a |-> None, r |-> Omitted(DefaultRetries), d |-> Omitted(DefaultDelay)]

-----------------------------------------------------------------------------
(* config/: the two TOML files *)

N26_TOML == "n26.toml"

YNAB_TOML == "ynab.toml"

\* content of config/n26.toml: one section per account
n26_toml ==
    [personal |-> [username |-> "u1", password |-> "p1", mfa_type |-> "app",
                   device_token |-> "d1", ynab_account |-> "A"]]

\* content of config/ynab.toml
ynab_toml == [ynab |-> [api_key |-> "k", budget_name |-> "B"]]

AccountNames == {"personal", "ghost"}

Ok(v) == [exc |-> None, val |-> v]

Raise(e) == [exc |-> e, val |-> None]

\* the f-string of the raise statement names account_name, which is neither
\* a parameter nor a global of paths.py: evaluating it raises NameError
\* before the ValueError is constructed
MissingFileError == "NameError"

get_n26_config_filepath ==
    IF N26_TOML \notin files THEN Raise(MissingFileError) ELSE Ok(N26_TOML)

get_ynab_config_filepath ==
    IF YNAB_TOML \notin files THEN Raise(MissingFileError) ELSE Ok(YNAB_TOML)

load_ynab_config ==
    IF get_ynab_config_filepath.exc # None THEN get_ynab_config_filepath
    ELSE Ok(ynab_toml)

load_n26_config ==
    IF get_n26_config_filepath.exc # None THEN get_n26_config_filepath
    ELSE Ok(n26_toml)

get_n26_account_config(name) ==
    IF load_n26_config.exc # None THEN load_n26_config
    ELSE IF name \notin DOMAIN load_n26_config.val THEN Raise("ValueError")
    ELSE Ok(load_n26_config.val[name])

\* a file read, as an entry of the history
ReadEvent(file, res) ==
    [op |-> "read", arg |-> file, exc |-> res.exc, val |-> None]

-----------------------------------------------------------------------------
(* The N26 side: what client.get_transactions can answer *)

TransactionsLimit == 99999

\* source records; amounts are whole currency units, merchantName is optional
SourcePool ==
    { [id |-> "t1", type |-> "AA", amount |-> -5, visibleTS |-> 1700000123,
       merchantName |-> "Shop"],
      [id |-> "t2", type |-> "PT", amount |-> 10, visibleTS |-> 1700000456],
      [id |-> "t3", type |-> "AE", amount |-> 7, visibleTS |-> 1700000789],
      [id |-> "t4", type |-> "AV", amount |-> -2, visibleTS |-> 1700001000,
       merchantName |-> "Bar"] }

TransactionLists == SeqsUpTo(SourcePool, MaxTx)

RetryError == "RetryError"

\* any failure of the N26 client other than the two-factor timeout
HTTPError == "HTTPError"

FetchOutcomes ==
    {Ok(l) : l \in TransactionLists} \cup {Raise(RetryError), Raise(HTTPError)}

-----------------------------------------------------------------------------
(* The YNAB side: what the budgets and accounts endpoints can answer *)

B1 == [name |-> "B", id |-> "b1"]

B2 == [name |-> "B", id |-> "b2"]

P3 == [name |-> "Personal", id |-> "b3"]

BudgetResponses == {<<>>, <<B1>>, <<P3>>, <<P3, B1>>, <<B1, B2>>}

A1 == [name |-> "A", id |-> "a1"]

A2 == [name |-> "A", id |-> "a2"]

Q3 == [name |-> "Q", id |-> "a3"]

AccountResponses == {<<>>, <<A1>>, <<Q3>>, <<A1, Q3>>, <<A2, A1>>}

ApiException == "ApiException"

\* keys of {x.name: x.id for x in response}, in insertion order
RECURSIVE dict_keys(_)
dict_keys(response) ==
    IF response = <<>> THEN <<>>
    ELSE LET k == dict_keys(Front(response))
             n == Last(response).name
         IN IF n \in Range(k) THEN k ELSE Append(k, n)

\* value of {x.name: x.id for x in response}[name]: a later item wins
dict_get(response, name) ==
    LET I == {i \in 1..Len(response) : response[i].name = name}
    IN response[CHOOSE i \in I : \A j \in I : j <= i].id

get_ynab_budget_id_mapping(response) ==
    [keys |-> dict_keys(response),
     get |-> [n \in Range(dict_keys(response)) |-> dict_get(response, n)]]

get_ynab_account_id_mapping(response) ==
    [keys |-> dict_keys(response),
     get |-> [n \in Range(dict_keys(response)) |-> dict_get(response, n)]]

-----------------------------------------------------------------------------
(* Pure functions of src/api.py *)

\* mutant: a provisional type is missing from the list
filtered_types_short == <<"AA", "AE">>

filtered_types == <<"AA", "AE", "AV">>

filter_transactions(ts) ==
    SelectSeq(ts, LAMBDA x : x.type \notin Range(filtered_types))

\* t_n26.get("merchantName", None)
PayeeName(t_n26) ==
    IF "merchantName" \in DOMAIN t_n26 THEN t_n26.merchantName ELSE None

\* datetime.fromtimestamp(visibleTS / 1000): seconds and microseconds
DateOf(ts) == [sec |-> ts \div 1000, usec |-> (ts % 1000) * 1000]

\* mutant: the import identifier is left unset
convert_without_import_id(t_n26, acct) ==
    [id |-> t_n26.id,
     import_id |-> None,
     account_id |-> acct,
     date |-> DateOf(t_n26.visibleTS),
     amount |-> t_n26.amount * 1000,
     cleared |-> "uncleared",
     approved |-> FALSE,
     deleted |-> FALSE,
     payee_name |-> PayeeName(t_n26)]

convert_n26_transaction_to_ynab(t_n26, acct) ==
    [id |-> t_n26.id,
     import_id |-> t_n26.id,
     account_id |-> acct,
     date |-> DateOf(t_n26.visibleTS),
     amount |-> t_n26.amount * 1000,
     cleared |-> "uncleared",
     approved |-> FALSE,
     deleted |-> FALSE,
     payee_name |-> PayeeName(t_n26)]

\* list(map(lambda t: _convert_n26_transaction_to_ynab(t, account_id), ...))
translate_all(ts, acct) ==
    [i \in 1..Len(ts) |-> convert_n26_transaction_to_ynab(ts[i], acct)]

\* mutant: the trace is taken after the filter
trace_rows_filtered(ts) == filter_transactions(ts)

\* pd.DataFrame(transactions).to_csv(...): one row per record
trace_rows(ts) == ts

\* the while condition of the retry loop
trials_left(w) == w >= 0

\* mutant: the check is off by one
no_retry_left_off_by_one(w) == w < 0

\* the check made after a timeout, before decrementing
no_retry_left(w) == w <= 0

\* mutant: every exception of the call is retried
is_retried_any(exc) == exc # None

\* except tenacity.RetryError
is_retried(exc) == exc = RetryError

\* mutant: the delay is taken in minutes
sleep_minutes(d) == 60 * d

\* time.sleep(delay)
sleep_seconds(d) == d

\* mutant: the message lists the identifiers
available_ids(mapping) == [i \in 1..Len(mapping.keys) |-> mapping.get[mapping.keys[i]]]

\* list(ynab_budget_id_map.keys()), the names the error message lists
available_names(mapping) == mapping.keys

-----------------------------------------------------------------------------
(* History entries *)

Event(op, arg, res) == [op |-> op, arg |-> arg, exc |-> res.exc, val |-> res.val]

Events(op) == SelectSeq(calls, LAMBDA e : e.op = op)

-----------------------------------------------------------------------------
(* Initial state: the command line (or the direct call), and config/ *)

Init ==
    /\ \/ /\ entry = "cli"
          /\ argv \in [a : AccountNames, r : RetryFlags, d : DelayFlags]
          /\ pc = "main"
          /\ account_name = None
          /\ retries = 0
          /\ delay = 0
       \/ /\ entry = "api"
          /\ argv = NoArgv
          /\ pc = "update_ynab"
          /\ account_name \in AccountNames
          /\ retries \in (-1)..MaxRetries
          /\ delay \in ApiDelays
    /\ files \in SUBSET {N26_TOML, YNAB_TOML}
    /\ err = None
    /\ errmsg = None
    /\ ynab_account_name = None
    /\ budget_name = None
    /\ watchdog = 0
    /\ transactions = <<>>
    /\ budget_id = None
    /\ account_id = None
    /\ logs_dir = <<>>
    /\ calls = <<>>

Running(at) == pc = at /\ err = None

Env == <<entry, argv, files>>

-----------------------------------------------------------------------------
(* main.py *)

\* results = parser.parse_args(); update_ynab(results.account, retries=..., delay=...)
main ==
    /\ Running("main")
    /\ account_name' = argv.a
    /\ retries' = int(argv.r)
    /\ delay' = int(argv.r)
    /\ pc' = "update_ynab"
    /\ UNCHANGED <<Env, err, errmsg, ynab_account_name, budget_name, watchdog,
                   transactions, budget_id, account_id, logs_dir, calls>>

-----------------------------------------------------------------------------
(* update_ynab: loading the two configurations *)

\* ynab_conf = load_ynab_config()["ynab"]
update_ynab_load_ynab_config ==
    /\ Running("update_ynab")
    /\ calls' = Append(calls, ReadEvent(YNAB_TOML, load_ynab_config))
    /\ IF load_ynab_config.exc # None
       THEN err' = load_ynab_config.exc /\ pc' = pc
       ELSE err' = err /\ pc' = "get_n26_account_config"
    /\ UNCHANGED <<Env, errmsg, account_name, retries, delay, ynab_account_name,
                   budget_name, watchdog, transactions, budget_id, account_id,
                   logs_dir>>

\* n26_conf = get_n26_account_config(account_name), and the two names
update_ynab_get_n26_account_config ==
    /\ Running("get_n26_account_config")
    /\ LET r == get_n26_account_config(account_name) IN
        /\ calls' = Append(calls, ReadEvent(N26_TOML, r))
        /\ IF r.exc # None
           THEN /\ err' = r.exc
                /\ UNCHANGED <<pc, ynab_account_name, budget_name>>
           ELSE /\ ynab_account_name' = r.val.ynab_account
                /\ budget_name' = load_ynab_config.val.ynab.budget_name
                /\ pc' = "download"
                /\ err' = err
    /\ UNCHANGED <<Env, errmsg, account_name, retries, delay, watchdog,
                   transactions, budget_id, account_id, logs_dir>>

-----------------------------------------------------------------------------
(* download_n26_transactions *)

\* client = get_n26_client(account_name); watchdog = retries
download_n26_transactions_begin ==
    /\ Running("download")
    /\ LET r == get_n26_account_config(account_name) IN
        /\ calls' = Append(calls, ReadEvent(N26_TOML, r))
        /\ IF r.exc # None
           THEN err' = r.exc /\ UNCHANGED <<pc, watchdog>>
           ELSE watchdog' = retries /\ pc' = "loop" /\ err' = err
    /\ UNCHANGED <<Env, errmsg, account_name, retries, delay, ynab_account_name,
                   budget_name, transactions, budget_id, account_id, logs_dir>>

\* one iteration of the while loop: the call, and on a timeout the check,
\* the decrement and the sleep
download_n26_transactions_attempt ==
    /\ Running("loop")
    /\ trials_left(watchdog)
    /\ \E out \in FetchOutcomes :
        LET call == Event("get_transactions", TransactionsLimit, out)
            nap == Event("sleep", sleep_seconds(delay), Ok(None))
        IN
        IF out.exc = None
        THEN /\ transactions' = out.val
             /\ pc' = "write_trace"
             /\ calls' = Append(calls, call)
             /\ UNCHANGED <<err, watchdog>>
        ELSE IF is_retried(out.exc)
        THEN IF no_retry_left(watchdog)
             THEN /\ err' = "AuthenticationTimeoutError"
                  /\ calls' = Append(calls, call)
                  /\ UNCHANGED <<pc, watchdog, transactions>>
             ELSE /\ watchdog' = watchdog - 1
                  /\ calls' = calls \o <<call, nap>>
                  /\ UNCHANGED <<pc, err, transactions>>
        ELSE /\ err' = out.exc
             /\ calls' = Append(calls, call)
             /\ UNCHANGED <<pc, watchdog, transactions>>
    /\ UNCHANGED <<Env, errmsg, account_name, retries, delay, ynab_account_name,
                   budget_name, budget_id, account_id, logs_dir>>

\* the loop ends without a break: len(transactions) reads an unbound local
download_n26_transactions_unbound ==
    /\ Running("loop")
    /\ ~trials_left(watchdog)
    /\ err' = "UnboundLocalError"
    /\ UNCHANGED <<Env, pc, errmsg, account_name, retries, delay,
                   ynab_account_name, budget_name, watchdog, transactions,
                   budget_id, account_id, logs_dir, calls>>

-----------------------------------------------------------------------------
(* update_ynab: the trace file and the filter *)

\* pd.DataFrame(transactions).to_csv(path, ...)
update_ynab_write_trace ==
    /\ Running("write_trace")
    /\ \E ok \in BOOLEAN :
        LET rows == trace_rows(transactions) IN
        IF ok
        THEN /\ logs_dir' = Append(logs_dir, [account |-> account_name, rows |-> rows])
             /\ calls' = Append(calls, Event("to_csv", rows, Ok(None)))
             /\ pc' = "filter"
             /\ err' = err
        ELSE /\ calls' = Append(calls, Event("to_csv", rows, Raise("OSError")))
             /\ err' = "OSError"
             /\ UNCHANGED <<pc, logs_dir>>
    /\ UNCHANGED <<Env, errmsg, account_name, retries, delay, ynab_account_name,
                   budget_name, watchdog, transactions, budget_id, account_id>>

\* mutant: the filtered list is not assigned back
update_ynab_filter_dropped ==
    /\ Running("filter")
    /\ pc' = "upload"
    /\ UNCHANGED <<Env, err, errmsg, account_name, retries, delay,
                   ynab_account_name, budget_name, watchdog, transactions,
                   budget_id, account_id, logs_dir, calls>>

\* transactions = filter_transactions(transactions)
update_ynab_filter ==
    /\ Running("filter")
    /\ transactions' = filter_transactions(transactions)
    /\ pc' = "upload"
    /\ UNCHANGED <<Env, err, errmsg, account_name, retries, delay,
                   ynab_account_name, budget_name, watchdog, budget_id,
                   account_id, logs_dir, calls>>

-----------------------------------------------------------------------------
(* upload_n26_transactions_to_ynab *)

\* get_ynab_client(), the budgets endpoint, and the budget name check
upload_resolve_budget ==
    /\ Running("upload")
    /\ IF load_ynab_config.exc # None
       THEN /\ calls' = Append(calls, ReadEvent(YNAB_TOML, load_ynab_config))
            /\ err' = load_ynab_config.exc
            /\ UNCHANGED <<pc, errmsg, budget_id>>
       ELSE \E out \in {Ok(l) : l \in BudgetResponses} \cup {Raise(ApiException)} :
            LET ynab_budget_id_map == get_ynab_budget_id_mapping(out.val) IN
            /\ calls' = calls \o <<ReadEvent(YNAB_TOML, load_ynab_config),
                                   Event("get_budgets", None, out)>>
            /\ IF out.exc # None
               THEN err' = out.exc /\ UNCHANGED <<pc, errmsg, budget_id>>
               ELSE IF budget_name \notin Range(ynab_budget_id_map.keys)
               THEN /\ err' = "BudgetNotFoundError"
                    /\ errmsg' = [name |-> budget_name,
                                  available |-> available_names(ynab_budget_id_map)]
                    /\ UNCHANGED <<pc, budget_id>>
               ELSE /\ budget_id' = ynab_budget_id_map.get[budget_name]
                    /\ pc' = "resolve_account"
                    /\ UNCHANGED <<err, errmsg>>
    /\ UNCHANGED <<Env, account_name, retries, delay, ynab_account_name,
                   budget_name, watchdog, transactions, account_id, logs_dir>>

\* the accounts endpoint of the budget, and the account name check
upload_resolve_account ==
    /\ Running("resolve_account")
    /\ \E out \in {Ok(l) : l \in AccountResponses} \cup {Raise(ApiException)} :
        LET ynab_account_id_map == get_ynab_account_id_mapping(out.val) IN
        /\ calls' = Append(calls, Event("get_accounts", budget_id, out))
        /\ IF out.exc # None
           THEN err' = out.exc /\ UNCHANGED <<pc, errmsg, account_id>>
           ELSE IF ynab_account_name \notin Range(ynab_account_id_map.keys)
           THEN /\ err' = "AccountNotFoundError"
                /\ errmsg' = [name |-> ynab_account_name,
                              available |-> available_names(ynab_account_id_map)]
                /\ UNCHANGED <<pc, account_id>>
           ELSE /\ account_id' = ynab_account_id_map.get[ynab_account_name]
                /\ pc' = "submit"
                /\ UNCHANGED <<err, errmsg>>
    /\ UNCHANGED <<Env, account_name, retries, delay, ynab_account_name,
                   budget_name, watchdog, transactions, budget_id, logs_dir>>

\* the translation of the batch and the bulk-create call
upload_submit ==
    /\ Running("submit")
    /\ \E out \in {Ok(None), Raise(ApiException)} :
        LET transactions_ynab == translate_all(transactions, account_id) IN
        /\ calls' = Append(calls,
                Event("bulk_create_transactions",
                      [budget_id |-> budget_id, transactions |-> transactions_ynab],
                      out))
        /\ IF out.exc # None
           THEN err' = out.exc /\ pc' = pc
           ELSE err' = err /\ pc' = "done"
    /\ UNCHANGED <<Env, errmsg, account_name, retries, delay, ynab_account_name,
                   budget_name, watchdog, transactions, budget_id, account_id,
                   logs_dir>>

-----------------------------------------------------------------------------

Next ==
    \/ main
    \/ update_ynab_load_ynab_config
    \/ update_ynab_get_n26_account_config
    \/ download_n26_transactions_begin
    \/ download_n26_transactions_attempt
    \/ download_n26_transactions_unbound
    \/ update_ynab_write_trace
    \/ update_ynab_filter
    \/ upload_resolve_budget
    \/ upload_resolve_account
    \/ upload_submit

Spec == Init /\ [][Next]_vars

-----------------------------------------------------------------------------
(* Vocabulary of the properties *)

Attempts == Events("get_transactions")

Sleeps == Events("sleep")

BulkCalls == Events("bulk_create_transactions")

\* the calls and the sleeps of the retry loop, in order
RetryTrace == SelectSeq(calls, LAMBDA e : e.op \in {"get_transactions", "sleep"})

\* what the successful call of get_transactions returned
Fetched == Last(Attempts).val

Provisional == {"AA", "AE", "AV"}

Names(response) == {x.name : x \in Range(response)}

AfterFilter == {"upload", "resolve_account", "submit", "done"}

\* r is x without its provisional records, order kept
IsKeptSubsequence(r, x) ==
    \E f \in [1..Len(r) -> 1..Len(x)] :
        /\ \A i, j \in 1..Len(r) : i < j => f[i] < f[j]
        /\ \A i \in 1..Len(r) : r[i] = x[f[i]]
        /\ {f[i] : i \in 1..Len(r)} = {j \in 1..Len(x) : x[j].type \notin Provisional}

-----------------------------------------------------------------------------
(* C1: with retries R >= 0, when the first k <= R calls of get_transactions *)
(* time out and call k+1 succeeds, download_n26_transactions returns the    *)
(* list of call k+1, after exactly k+1 calls and exactly k waits of delay   *)
(* seconds, one between each two calls; no call follows a success.          *)
C1_RetryThenSuccess ==
    LET a == Attempts
        k == Len(a) - 1
    IN
    /\ \A i \in 1..Len(a) : a[i].exc = None => i = Len(a)
    /\ ( /\ pc # "main"
         /\ retries >= 0
         /\ Len(a) > 0
         /\ a[Len(a)].exc = None
         /\ \A i \in 1..k : a[i].exc = RetryError )
       => /\ k <= retries
          /\ Len(Sleeps) = k
          /\ \A i \in 1..k : Sleeps[i].arg = delay
          /\ Len(RetryTrace) = 2 * k + 1
          /\ \A i \in 1..Len(RetryTrace) :
                (RetryTrace[i].op = "sleep") <=> (i % 2 = 0)
          /\ pc \notin {"update_ynab", "get_n26_account_config", "download", "loop"}
          /\ err \notin {"AuthenticationTimeoutError", "UnboundLocalError"}
          /\ (pc = "write_trace" => transactions = a[k + 1].val)

C1_Witness ==
    /\ retries = 2
    /\ pc = "write_trace"
    /\ Len(Attempts) = 3
    /\ Len(Sleeps) = 2
    /\ transactions # <<>>
    /\ transactions = Fetched

(* C2: with retries R >= 0, R+1 consecutive timeouts end the download with  *)
(* AuthenticationTimeoutError after exactly R+1 calls and R waits, the last *)
(* thing done being the failed call (no wait after it), nothing returned;   *)
(* and that error is raised in no other case.                               *)
C2_RetriesExhausted ==
    LET a == Attempts IN
    /\ ( /\ pc # "main"
         /\ retries >= 0
         /\ Len(a) = retries + 1
         /\ \A i \in 1..Len(a) : a[i].exc = RetryError )
       => /\ err = "AuthenticationTimeoutError"
          /\ pc = "loop"
          /\ Len(Sleeps) = retries
          /\ Last(calls).op = "get_transactions"
          /\ transactions = <<>>
          /\ logs_dir = <<>>
    /\ err = "AuthenticationTimeoutError"
       => /\ Len(a) = retries + 1
          /\ \A i \in 1..Len(a) : a[i].exc = RetryError

C2_Witness ==
    /\ retries = 2
    /\ err = "AuthenticationTimeoutError"
    /\ Len(Attempts) = 3
    /\ Len(Sleeps) = 2

C4_ImportIdIsSourceId ==
    \A n \in 1..Len(calls) :
        calls[n].op = "bulk_create_transactions"
        => LET batch == calls[n].arg.transactions IN
           /\ Len(batch) = Len(transactions)
           /\ \A i \in 1..Len(batch) :
                /\ batch[i].id = transactions[i].id
                /\ batch[i].import_id = transactions[i].id
                /\ batch[i].account_id = account_id

C4_Witness ==
    /\ Len(BulkCalls) = 1
    /\ Len(BulkCalls[1].arg.transactions) = 2
    /\ BulkCalls[1].arg.transactions[1].import_id = "t2"
    /\ account_id = "a1"

C6_NamesMustResolve ==
    LET gb == Events("get_budgets")
        ga == Events("get_accounts")
    IN
    /\ (Len(gb) > 0 /\ Last(gb).exc = None /\ budget_name \notin Names(Last(gb).val))
       => /\ err = "BudgetNotFoundError"
          /\ errmsg.name = budget_name
          /\ Range(errmsg.available) = Names(Last(gb).val)
          /\ ga = <<>>
          /\ BulkCalls = <<>>
    /\ err = "BudgetNotFoundError"
       => Len(gb) = 1 /\ budget_name \notin Names(Last(gb).val)
    /\ (Len(ga) > 0 /\ Last(ga).exc = None /\ ynab_account_name \notin Names(Last(ga).val))
       => /\ err = "AccountNotFoundError"
          /\ BulkCalls = <<>>
    /\ err = "AccountNotFoundError"
       => /\ budget_name \in Names(Last(gb).val)
          /\ Len(ga) = 1
          /\ ynab_account_name \notin Names(Last(ga).val)
    /\ BulkCalls # <<>>
       => /\ Len(gb) = 1 /\ budget_name \in Names(Last(gb).val)
          /\ Len(ga) = 1 /\ ynab_account_name \in Names(Last(ga).val)

C6_Witness ==
    /\ err = "BudgetNotFoundError"
    /\ errmsg.name = "B"
    /\ errmsg.available = <<"Personal">>

(* C7: run from the command line, update_ynab and the download receive the  *)
(* value of -r as the retry count and the value of -d (1800 when omitted)   *)
(* as the delay, and every wait between two attempts lasts that delay.      *)
C7_DelayFlagIsTheWait ==
    (entry = "cli" /\ pc # "main")
    => /\ retries = int(argv.r)
       /\ delay = int(argv.d)
       /\ \A i \in 1..Len(Sleeps) : Sleeps[i].arg = int(argv.d)

\* the exception class the code raises for a configuration failure
ConfigurationError == "ValueError"

ApiOps ==
    {"get_transactions", "get_budgets", "get_accounts", "bulk_create_transactions"}

(* C8: when the account name is absent from n26.toml, or n26.toml or        *)
(* ynab.toml is missing, configuration loading fails with the configuration *)
(* error, and update_ynab aborts before any API call.                       *)
C8_ConfigurationError ==
    ( /\ pc # "main"
      /\ (err # None \/ pc \notin {"update_ynab", "get_n26_account_config"})
      /\ \/ YNAB_TOML \notin files
         \/ N26_TOML \notin files
         \/ account_name \notin DOMAIN n26_toml )
    => /\ err = ConfigurationError
       /\ \A n \in 1..Len(calls) : calls[n].op \notin ApiOps

\* position of an external interaction in the order of update_ynab's steps
Stage(op) ==
    CASE op \in {"get_transactions", "sleep"} -> 1
      [] op = "to_csv" -> 2
      [] op = "get_budgets" -> 3
      [] op = "get_accounts" -> 4
      [] op = "bulk_create_transactions" -> 5

Steps == SelectSeq(calls, LAMBDA e : e.op # "read")

(* C9: the steps of update_ynab happen in the order load configs, fetch,    *)
(* write trace, filter, resolve names, translate, submit: both configs are  *)
(* read before anything else, the trace is written once, directly after the *)
(* successful fetch and before the filter, with every fetched record in it, *)
(* and it is on disk whenever a name is resolved or a batch submitted,      *)
(* whether or not those later steps fail.                                   *)
C9_TraceBeforeFilter ==
    /\ \A i, j \in 1..Len(Steps) : i < j => Stage(Steps[i].op) <= Stage(Steps[j].op)
    /\ Steps # <<>>
       => /\ calls[1] = ReadEvent(YNAB_TOML, Ok(None))
          /\ calls[2] = ReadEvent(N26_TOML, Ok(None))
    /\ Len(Events("to_csv")) <= 1
    /\ \A n \in 1..Len(calls) :
        calls[n].op = "to_csv"
        => /\ n > 1
           /\ calls[n - 1].op = "get_transactions"
           /\ calls[n - 1].exc = None
           /\ calls[n].arg = calls[n - 1].val
    /\ \A n \in 1..Len(calls) :
        calls[n].op \in {"get_budgets", "get_accounts", "bulk_create_transactions"}
        => \E m \in 1..(n - 1) : calls[m].op = "to_csv" /\ calls[m].exc = None
    /\ pc \in {"main", "update_ynab", "get_n26_account_config", "download", "loop",
               "write_trace"}
       => logs_dir = <<>>
    /\ pc = "write_trace" => transactions = Fetched
    /\ pc = "filter"
       => /\ transactions = Fetched
          /\ Last(calls).op = "to_csv"
    /\ pc \in {"filter"} \cup AfterFilter
       => /\ Len(logs_dir) = 1
          /\ logs_dir[1].rows = Fetched
    /\ pc \in AfterFilter
       => transactions = SelectSeq(Fetched, LAMBDA t : t.type \notin Provisional)

C9_Witness ==
    /\ err = "AccountNotFoundError"
    /\ Len(logs_dir) = 1
    /\ Len(logs_dir[1].rows) = 2
    /\ logs_dir[1].rows[1].type = "AV"
    /\ logs_dir[1].rows[2].type = "PT"
    /\ Len(transactions) = 1

(* C10: a failure of get_transactions other than the timeout ends the       *)
(* download at once: no wait and no further call follows it, whatever       *)
(* retries remain; and when the fetch step fails, for whatever reason, no   *)
(* trace is written, no name resolved and no bulk-create call issued.       *)
C10_OnlyTimeoutRetried ==
    /\ \A n \in 1..Len(calls) :
        (calls[n].op = "get_transactions" /\ calls[n].exc \notin {None, RetryError})
        => /\ n = Len(calls)
           /\ err = calls[n].exc
           /\ pc = "loop"
    /\ (err # None /\ pc \in {"download", "loop"})
       => /\ logs_dir = <<>>
          /\ \A n \in 1..Len(calls) : calls[n].op \in {"read", "get_transactions", "sleep"}

C10_Witness ==
    /\ retries = 2
    /\ err = HTTPError
    /\ watchdog = 1
    /\ Len(Attempts) = 2
    /\ Len(Sleeps) = 1
    /\ Last(calls).op = "get_transactions"

=============================================================================
